---- MODULE Spec2Model ----
(***************************************************************************)
(* Model of examples/run_training.py of drlfoam: the function main(), its  *)
(* configuration checks, the checkpoint/resume branch and the episode      *)
(* loop, together with print_statistics().  The buffer, the agent and the  *)
(* file system are the collaborators main() drives; they are kept as the   *)
(* state main() can observe: directories, checkpoint and policy files,     *)
(* the fill counter, the trial statuses and the policy the trials read.    *)
(* Strings whose letters matter (the -e argument, lowered by main()) are   *)
(* tuples of one-letter strings.                                           *)
(***************************************************************************)
EXTENDS Integers, Sequences, FiniteSets, TLC

\* ------------------------------------------------------------------ bounds
\* Largest number of episodes (--iter) explored.
MaxEpisodes == 3
\* Largest number of runners (--runners) explored.
MaxRunners == 2

\* ------------------------------------------------------- program constants
\* --finish default: the end time given to the base environment.
DefaultFinish == 8
\* Start and end time of a freshly constructed environment.
EnvStartTime == 0
EnvEndTime == 4

\* -------------------------------------------------------------- strings
Str_local == <<"l", "o", "c", "a", "l">>
Str_slurm == <<"s", "l", "u", "r", "m">>

\* Values of the -e/--environment argument that are explored.
EnvironmentArgs ==
    { Str_local, <<"S", "L", "u", "r", "M">>,
      <<"p", "b", "s">>, <<"L", "O", "C", "A", "L", "E">> }

\* Values of the -s/--simulation argument that are explored.
SimulationArgs == {"rotatingCylinder2D", "foo", "rotatingcylinder2d"}

\* SIMULATION_ENVIRONMENTS.keys()
SIMULATION_ENVIRONMENTS == {"rotatingCylinder2D", "rotatingPinball2D"}

LowerChar(c) ==
    CASE c = "L" -> "l"
      [] c = "O" -> "o"
      [] c = "C" -> "c"
      [] c = "A" -> "a"
      [] c = "S" -> "s"
      [] c = "U" -> "u"
      [] c = "R" -> "r"
      [] c = "M" -> "m"
      [] c = "E" -> "e"
      [] OTHER -> c

\* str.lower()
Lower(s) == [i \in DOMAIN s |-> LowerChar(s[i])]

\* ------------------------------------------------------------ file system
TrainingDir == <<"training">>
BaseDir == <<"training", "base">>
TrialDir(i) == <<"training", "copy", i>>

NoFile == [by |-> "none", history |-> <<>>]
NoPolicyFile == [by |-> "none", version |-> -1]
NoPolicy == -1

Episodes == 0 .. MaxEpisodes
FileIndex == 0 .. (MaxEpisodes + 1)

\* history["episode"] after the update of episode k: 0, 1, ..., k
HistoryUpTo(k) == [i \in 1 .. (k + 1) |-> i - 1]

\* No checkpoint argument (the default "").
NoCheckpoint == <<>>
\* join(training_path, f"checkpoint_{e}.pt") and the same name as the -c argument
CheckpointName(e) == <<"checkpoint", e>>
PolicyName(e) == <<"policy_trace", e>>

Last(s) == s[Len(s)]

\* ------------------------------------------------------------------ state
VARIABLES
    pc,               \* position of main()
    args,             \* the parsed command line
    episodes, buffer_size, n_runners, end_time, executer, timeout,
    checkpoint_file, simulation,
    dirs,             \* directories that exist
    created,          \* directories this run created
    env,              \* TRUE once the environment object exists
    buffer,           \* the buffer object: kind, _n_fills, trial statuses, base_env times
    agent,            \* the agent object: made, history["episode"]
    envPolicy,        \* version of the policy file the trials read (-1: none)
    starting_episode,
    it,               \* next value of range(starting_episode, episodes)
    e,                \* the loop variable (-1: not bound yet)
    observations,     \* (states, actions, rewards) read in this episode
    batch,            \* what agent.update was last called with
    current_policy,   \* the policy traced in this episode
    ckpt,             \* checkpoint_<i>.pt files
    pol,              \* policy_trace_<i>.pt files
    trace,            \* the buffer/agent/file operations completed, in order
    error,            \* the exception that left main(), "none" while running
    failedAt          \* the step a collaborator failed at

vars == <<pc, args, episodes, buffer_size, n_runners, end_time, executer, timeout,
          checkpoint_file, simulation, dirs, created, env, buffer, agent, envPolicy,
          starting_episode, it, e, observations, batch, current_policy,
          ckpt, pol, trace, error, failedAt>>

locals == <<episodes, buffer_size, n_runners, end_time, executer, timeout,
            checkpoint_file, simulation>>
disk == <<dirs, created, ckpt, pol, envPolicy>>
loopvars == <<starting_episode, it, e, observations, batch, current_policy>>

\* A trial that has not ended has no run to report.
NoRun == [runtime |-> 0, output |-> "none"]

\* The buffer object: its class, its size, _n_fills, the position of its fill
\* cycle, per trial slot the status and the run that ended, and the time
\* window of its base environment.
NoBuffer == [kind |-> "none", size |-> 0, n_fills |-> 0, state |-> "idle",
             trials |-> <<>>, runs |-> <<>>,
             start_time |-> EnvStartTime, end_time |-> EnvEndTime]
NoAgent == [made |-> FALSE, history |-> <<>>]
NoObservations == [states |-> <<>>, actions |-> <<>>, rewards |-> <<>>]

Event(op, ep) == [op |-> op, e |-> ep]

\* ------------------------------------------------------------------- Init
\* The disk a resumed run finds: the interrupted run wrote checkpoint_0..k
\* and stopped either after save_state of episode k (the policy of episode k
\* neither pushed to the trials nor saved) or after the whole episode k.
OldCheckpoints(k) ==
    [n \in {CheckpointName(i) : i \in FileIndex} |->
        IF n[2] <= k THEN [by |-> "old", history |-> HistoryUpTo(n[2])] ELSE NoFile]

OldPolicies(k) ==
    [n \in {PolicyName(i) : i \in FileIndex} |->
        IF n[2] <= k THEN [by |-> "old", version |-> n[2] + 1] ELSE NoPolicyFile]

\* Values of the -t/--timeout argument that are explored (seconds).
TimeoutArgs == {2}

ArgSets ==
    [simulation : SimulationArgs, environment : EnvironmentArgs,
     iter : Episodes, runners : 1 .. MaxRunners, buffer : 0 .. MaxRunners,
     finish : {DefaultFinish}, timeout : TimeoutArgs,
     checkpoint : {NoCheckpoint} \cup {CheckpointName(k) : k \in 0 .. (MaxEpisodes - 1)}]

InitFresh ==
    /\ args.checkpoint = NoCheckpoint
    /\ dirs \in {{}, {TrainingDir}}
    /\ ckpt = OldCheckpoints(-1)
    /\ pol = OldPolicies(-1)
    /\ envPolicy = NoPolicy

InitResumed ==
    /\ args.checkpoint # NoCheckpoint
    /\ dirs = {TrainingDir, BaseDir} \cup {TrialDir(i) : i \in 1 .. args.runners}
    /\ ckpt = OldCheckpoints(args.checkpoint[2])
    /\ \E complete \in BOOLEAN :
          IF complete
          THEN /\ pol = OldPolicies(args.checkpoint[2])
               /\ envPolicy = args.checkpoint[2] + 1
          ELSE /\ pol = OldPolicies(args.checkpoint[2] - 1)
               /\ envPolicy = args.checkpoint[2]

Init ==
    /\ pc = "settings"
    /\ args \in ArgSets
    /\ episodes = 0 /\ buffer_size = 0 /\ n_runners = 0 /\ end_time = 0 /\ timeout = 0
    /\ executer = <<>> /\ checkpoint_file = <<>> /\ simulation = ""
    /\ InitFresh \/ InitResumed
    /\ created = {}
    /\ env = FALSE
    /\ buffer = NoBuffer
    /\ agent = NoAgent
    /\ starting_episode = -1 /\ it = -1 /\ e = -1
    /\ observations = NoObservations
    /\ batch = NoObservations
    /\ current_policy = NoPolicy
    /\ trace = <<>>
    /\ error = "none"
    /\ failedAt = "none"

\* ---------------------------------------------------- main(): configuration
Raise(exc) ==
    /\ error' = exc
    /\ pc' = "raised"

\* lines 98-106
Settings ==
    /\ pc = "settings"
    /\ episodes' = args.iter
    /\ buffer_size' = args.buffer
    /\ n_runners' = args.runners
    /\ timeout' = args.timeout
    /\ end_time' = args.finish
    /\ executer' = Lower(args.environment)
    /\ checkpoint_file' = args.checkpoint
    /\ simulation' = args.simulation
    /\ pc' = "makedirs"
    /\ UNCHANGED <<args, disk, env, buffer, agent, loopvars, trace, error, failedAt>>

\* line 109: makedirs(training_path, exist_ok=True)
Makedirs ==
    /\ pc = "makedirs"
    /\ dirs' = dirs \cup {TrainingDir}
    /\ created' = created \cup ({TrainingDir} \ dirs)
    /\ pc' = "check_simulation"
    /\ UNCHANGED <<args, locals, ckpt, pol, envPolicy, env, buffer, agent,
                   loopvars, trace, error, failedAt>>

\* line 112 with the check dropped
UnknownSimulationUnchecked(s) == FALSE

\* line 112
UnknownSimulation(s) == s \notin SIMULATION_ENVIRONMENTS

\* lines 112-116
CheckSimulation ==
    /\ pc = "check_simulation"
    /\ IF UnknownSimulation(simulation)
       THEN Raise("ValueError")
       ELSE pc' = "copytree" /\ UNCHANGED error
    /\ UNCHANGED <<args, locals, disk, env, buffer, agent, loopvars, trace, failedAt>>

\* lines 117-121
CopyBase ==
    /\ pc = "copytree"
    /\ dirs' = dirs \cup {BaseDir}
    /\ created' = created \cup ({BaseDir} \ dirs)
    /\ env' = TRUE
    /\ pc' = "check_finish_time"
    /\ UNCHANGED <<args, locals, ckpt, pol, envPolicy, buffer, agent,
                   loopvars, trace, error, failedAt>>

\* line 124
CheckFinishTime ==
    /\ pc = "check_finish_time"
    /\ pc' = "create_buffer"
    /\ UNCHANGED <<args, locals, disk, env, buffer, agent, loopvars, trace,
                   error, failedAt>>

\* lines 127-139 with a plain else in place of the elif: every executer that
\* is not 'local' gets the Slurm buffer.
BufferKindElse(x) == IF x = Str_local THEN "local" ELSE "slurm"

\* lines 127-139: which buffer class the executer selects
BufferKind(x) ==
    IF x = Str_local THEN "local"
    ELSE IF x = Str_slurm THEN "slurm"
    ELSE "unknown"

\* lines 127-139
CreateBuffer ==
    /\ pc = "create_buffer"
    /\ IF BufferKind(executer) = "unknown"
       THEN Raise("ValueError") /\ UNCHANGED buffer
       ELSE /\ buffer' = [NoBuffer EXCEPT !.kind = BufferKind(executer),
                                          !.size = buffer_size,
                                          !.trials = [i \in 1 .. n_runners |-> "pending"],
                                          !.runs = [i \in 1 .. n_runners |-> NoRun]]
            /\ pc' = "create_agent"
            /\ UNCHANGED error
    /\ UNCHANGED <<args, locals, disk, env, agent, loopvars, trace, failedAt>>

\* lines 142-143
CreateAgent ==
    /\ pc = "create_agent"
    /\ agent' = [made |-> TRUE, history |-> <<>>]
    /\ pc' = "checkpoint_branch"
    /\ UNCHANGED <<args, locals, disk, env, buffer, loopvars, trace, error, failedAt>>

\* ----------------------------------------------- main(): resume or fresh start
\* line 149 without the + 1
StartingEpisodeSame(history) == Last(history)

\* line 149
StartingEpisode(history) == Last(history) + 1

\* lines 146-149, without the assignment to buffer._n_fills of line 150
LoadCheckpointKeepCounter ==
    /\ pc = "checkpoint_branch"
    /\ checkpoint_file # NoCheckpoint
    /\ agent' = [agent EXCEPT !.history = ckpt[checkpoint_file].history]
    /\ starting_episode' = StartingEpisode(agent'.history)
    /\ pc' = "time_window"
    /\ UNCHANGED <<args, locals, disk, env, buffer, it, e, observations, batch,
                   current_policy, trace, error, failedAt>>

\* lines 146-150 followed by the prepare() of the fresh start
LoadCheckpointAndPrepare ==
    /\ pc = "checkpoint_branch"
    /\ checkpoint_file # NoCheckpoint
    /\ agent' = [agent EXCEPT !.history = ckpt[checkpoint_file].history]
    /\ starting_episode' = StartingEpisode(agent'.history)
    /\ buffer' = [buffer EXCEPT !.n_fills = starting_episode']
    /\ pc' = "prepare"
    /\ UNCHANGED <<args, locals, disk, env, it, e, observations, batch,
                   current_policy, trace, error, failedAt>>

\* lines 146-150
LoadCheckpoint ==
    /\ pc = "checkpoint_branch"
    /\ checkpoint_file # NoCheckpoint
    /\ agent' = [agent EXCEPT !.history = ckpt[checkpoint_file].history]
    /\ starting_episode' = StartingEpisode(agent'.history)
    /\ buffer' = [buffer EXCEPT !.n_fills = starting_episode']
    /\ pc' = "time_window"
    /\ UNCHANGED <<args, locals, disk, env, it, e, observations, batch,
                   current_policy, trace, error, failedAt>>

\* lines 151-155
FreshStart ==
    /\ pc = "checkpoint_branch"
    /\ checkpoint_file = NoCheckpoint
    /\ starting_episode' = 0
    /\ envPolicy' = 0
    /\ trace' = Append(trace, Event("create_dummy_policy", e))
    /\ pc' = "prepare"
    /\ UNCHANGED <<args, locals, dirs, created, ckpt, pol, env, buffer, agent, it, e,
                   observations, batch, current_policy, error, failedAt>>

\* line 157: buffer.prepare()
Prepare ==
    /\ pc = "prepare"
    /\ dirs' = dirs \cup {TrialDir(i) : i \in 1 .. n_runners}
    /\ created' = created \cup ({TrialDir(i) : i \in 1 .. n_runners} \ dirs)
    /\ trace' = Append(trace, Event("prepare", e))
    /\ pc' = "time_window"
    /\ UNCHANGED <<args, locals, ckpt, pol, envPolicy, env, buffer, agent,
                   loopvars, error, failedAt>>

\* lines 159-160 in the other order: the start time gets the new end time
TimeWindowSwapped ==
    /\ pc = "time_window"
    /\ buffer' = [buffer EXCEPT !.start_time = end_time, !.end_time = end_time]
    /\ pc' = "first_reset"
    /\ UNCHANGED <<args, locals, disk, env, agent, loopvars, trace, error, failedAt>>

\* lines 159-160
TimeWindow ==
    /\ pc = "time_window"
    /\ buffer' = [buffer EXCEPT !.start_time = buffer.end_time, !.end_time = end_time]
    /\ pc' = "first_reset"
    /\ UNCHANGED <<args, locals, disk, env, agent, loopvars, trace, error, failedAt>>

\* buffer.reset()
BufferReset(b) ==
    [b EXCEPT !.trials = [i \in DOMAIN b.trials |-> "pending"],
              !.runs = [i \in DOMAIN b.runs |-> NoRun],
              !.state = "idle"]

\* line 161
FirstReset ==
    /\ pc = "first_reset"
    /\ buffer' = BufferReset(buffer)
    /\ trace' = Append(trace, Event("reset", e))
    /\ pc' = "start_loop"
    /\ UNCHANGED <<args, locals, disk, env, agent, loopvars, error, failedAt>>

\* ------------------------------------------------------- main(): episode loop
\* StartLoop with the range started one episode late.
StartLoopLate ==
    /\ pc = "start_loop"
    /\ it' = starting_episode + 1
    /\ pc' = "loop"
    /\ UNCHANGED <<args, locals, disk, env, buffer, agent, starting_episode, e,
                   observations, batch, current_policy, trace, error, failedAt>>

\* lines 164-165: range(starting_episode, episodes) is created
StartLoop ==
    /\ pc = "start_loop"
    /\ it' = starting_episode
    /\ pc' = "loop"
    /\ UNCHANGED <<args, locals, disk, env, buffer, agent, starting_episode, e,
                   observations, batch, current_policy, trace, error, failedAt>>

\* line 165 with a range that includes its upper end
LoopHeadInclusive ==
    /\ pc = "loop"
    /\ IF it <= episodes
       THEN /\ e' = it
            /\ it' = it + 1
            /\ pc' = "fill"
       ELSE /\ pc' = "done"
            /\ UNCHANGED <<e, it>>
    /\ UNCHANGED <<args, locals, disk, env, buffer, agent, starting_episode,
                   observations, batch, current_policy, trace, error, failedAt>>

\* line 165: the next value of the range, or the end of the loop (line 177)
LoopHead ==
    /\ pc = "loop"
    /\ IF it < episodes
       THEN /\ e' = it
            /\ it' = it + 1
            /\ pc' = "fill"
       ELSE /\ pc' = "done"
            /\ UNCHANGED <<e, it>>
    /\ UNCHANGED <<args, locals, disk, env, buffer, agent, starting_episode,
                   observations, batch, current_policy, trace, error, failedAt>>

TerminalStatus == {"succeeded", "failed", "timed_out"}

\* What a trial can do: end in time with well-formed output, end in time
\* with malformed output (or an error), or run on past the timeout explored.
TrialRuns ==
    {[runtime |-> 1, output |-> "wellformed"],
     [runtime |-> 1, output |-> "malformed"],
     [runtime |-> 3, output |-> "wellformed"]}

\* TrialRunner: the status reported for a run under timeout t
TrialStatus(run, t) ==
    IF run.runtime > t THEN "timed_out"
    ELSE IF run.output = "wellformed" THEN "succeeded"
    ELSE "failed"

\* buffer.fill(), idle -> launching -> waiting: one trial per slot is started
BufferLaunch(b) ==
    [b EXCEPT !.trials = [i \in DOMAIN b.trials |-> "running"], !.state = "waiting"]

\* line 167, the call
FillLaunch ==
    /\ pc = "fill"
    /\ buffer' = BufferLaunch(buffer)
    /\ pc' = "filling"
    /\ UNCHANGED <<args, locals, disk, env, agent, loopvars, trace, error, failedAt>>

\* The trial of slot i ends with run r: only that slot changes.
BufferTrialEnds(b, i, r, t) ==
    [b EXCEPT !.trials[i] = TrialStatus(r, t), !.runs[i] = r]

\* line 167, while the call blocks: the process of a running trial exits
TrialEnds(i) ==
    /\ pc = "filling"
    /\ i \in DOMAIN buffer.trials
    /\ buffer.trials[i] = "running"
    /\ \E r \in TrialRuns :
          /\ r.runtime <= timeout
          /\ buffer' = BufferTrialEnds(buffer, i, r, timeout)
    /\ UNCHANGED <<pc, args, locals, disk, env, agent, loopvars, trace, error, failedAt>>

\* line 167, while the call blocks: a running trial passes the timeout and
\* is stopped
TrialTimesOut(i) ==
    /\ pc = "filling"
    /\ i \in DOMAIN buffer.trials
    /\ buffer.trials[i] = "running"
    /\ \E r \in TrialRuns :
          /\ r.runtime > timeout
          /\ buffer' = BufferTrialEnds(buffer, i, r, timeout)
    /\ UNCHANGED <<pc, args, locals, disk, env, agent, loopvars, trace, error, failedAt>>

NumberSucceeded(b) == Cardinality({i \in DOMAIN b.trials : b.trials[i] = "succeeded"})

\* buffer.fill() returning without waiting for its trials
FillMayCompleteAtOnce(b) == TRUE

\* buffer.fill(), waiting -> collecting: enough trials succeeded, or every
\* launched trial is terminal
FillMayComplete(b) ==
    \/ NumberSucceeded(b) >= b.size
    \/ \A i \in DOMAIN b.trials : b.trials[i] \in TerminalStatus

\* buffer.fill(), collecting -> done: one more fill counted
BufferFill(b) == [b EXCEPT !.n_fills = b.n_fills + 1, !.state = "done"]

\* line 167, the return
Fill ==
    /\ pc = "filling"
    /\ FillMayComplete(buffer)
    /\ buffer' = BufferFill(buffer)
    /\ trace' = Append(trace, Event("fill", e))
    /\ pc' = "observations"
    /\ UNCHANGED <<args, locals, disk, env, agent, loopvars, error, failedAt>>

\* The trials of b that succeeded, in launch order.
RECURSIVE Succeeded(_, _)
Succeeded(b, n) ==
    IF n = 0 THEN <<>>
    ELSE IF b.trials[n] = "succeeded"
         THEN Append(Succeeded(b, n - 1), n)
         ELSE Succeeded(b, n - 1)

\* buffer.observations losing the first successful trial
BufferObservationsTail(b) ==
    [states |-> SubSeq(Succeeded(b, Len(b.trials)), 2, Len(Succeeded(b, Len(b.trials)))),
     actions |-> SubSeq(Succeeded(b, Len(b.trials)), 2, Len(Succeeded(b, Len(b.trials)))),
     rewards |-> SubSeq(Succeeded(b, Len(b.trials)), 2, Len(Succeeded(b, Len(b.trials))))]

\* buffer.observations: three parallel sequences, one entry per successful trial
BufferObservations(b) ==
    [states |-> Succeeded(b, Len(b.trials)),
     actions |-> Succeeded(b, Len(b.trials)),
     rewards |-> Succeeded(b, Len(b.trials))]

\* line 168 with the observations read once and kept for later episodes
ReadObservationsOnce ==
    /\ pc = "observations"
    /\ observations' = IF observations = NoObservations
                       THEN BufferObservations(buffer)
                       ELSE observations
    /\ trace' = Append(trace, Event("observations", e))
    /\ pc' = "print_statistics"
    /\ UNCHANGED <<args, locals, disk, env, buffer, agent, starting_episode, it, e,
                   batch, current_policy, error, failedAt>>

\* line 168
ReadObservations ==
    /\ pc = "observations"
    /\ observations' = BufferObservations(buffer)
    /\ trace' = Append(trace, Event("observations", e))
    /\ pc' = "print_statistics"
    /\ UNCHANGED <<args, locals, disk, env, buffer, agent, starting_episode, it, e,
                   batch, current_policy, error, failedAt>>

\* lines 63-68 with a statistic that needs two trajectories
StatisticsNeedTwo(actions, rewards) == Len(rewards) < 2

\* lines 63-68 with the means guarded against an empty list
StatisticsGuarded(actions, rewards) == FALSE

\* lines 63-68: sum(rt) / len(rt) and its siblings divide by the number of
\* trajectories
StatisticsDivideByZero(actions, rewards) == Len(rewards) = 0 \/ Len(actions) = 0

\* line 169
PrintStatistics ==
    /\ pc = "print_statistics"
    /\ IF StatisticsDivideByZero(observations.actions, observations.rewards)
       THEN Raise("ZeroDivisionError")
       ELSE pc' = "update" /\ UNCHANGED error
    /\ UNCHANGED <<args, locals, disk, env, buffer, agent, loopvars, trace, failedAt>>

\* agent.update(): one more episode in history["episode"]
AgentUpdate(a) == [a EXCEPT !.history = Append(a.history, Len(a.history))]

\* line 170
Update ==
    /\ pc = "update"
    /\ agent' = AgentUpdate(agent)
    /\ batch' = observations
    /\ trace' = Append(trace, Event("update", e))
    /\ pc' = "save_state"
    /\ UNCHANGED <<args, locals, disk, env, buffer, starting_episode, it, e,
                   observations, current_policy, error, failedAt>>

\* line 171 with a file name that does not depend on the episode
CheckpointFileFixed(ep) == CheckpointName(0)

\* line 171: the file agent.save_state writes
CheckpointFile(ep) == CheckpointName(ep)

\* line 171
SaveState ==
    /\ pc = "save_state"
    /\ ckpt' = [ckpt EXCEPT ![CheckpointFile(e)] = [by |-> "new", history |-> agent.history]]
    /\ trace' = Append(trace, Event("save_state", CheckpointFile(e)[2]))
    /\ pc' = "trace_policy"
    /\ UNCHANGED <<args, locals, dirs, created, pol, envPolicy, env, buffer, agent,
                   loopvars, error, failedAt>>

\* agent.trace_policy(): the frozen policy of the agent as it is now
AgentTracePolicy(a) == Len(a.history)

\* line 172
TracePolicy ==
    /\ pc = "trace_policy"
    /\ current_policy' = AgentTracePolicy(agent)
    /\ trace' = Append(trace, Event("trace_policy", e))
    /\ pc' = "update_policy"
    /\ UNCHANGED <<args, locals, disk, env, buffer, agent, starting_episode, it, e,
                   observations, batch, error, failedAt>>

\* line 173 with the policy the trials already have handed over again
PushedPolicyStale(current, old) == old

\* line 173: the policy handed to buffer.update_policy
PushedPolicy(current, old) == current

\* line 173
UpdatePolicy ==
    /\ pc = "update_policy"
    /\ envPolicy' = PushedPolicy(current_policy, envPolicy)
    /\ trace' = Append(trace, Event("update_policy", e))
    /\ pc' = "save_policy"
    /\ UNCHANGED <<args, locals, dirs, created, ckpt, pol, env, buffer, agent,
                   loopvars, error, failedAt>>

\* line 174 with a file name that does not depend on the episode
PolicyFileFixed(ep) == PolicyName(0)

\* line 174: the file current_policy.save writes
PolicyFile(ep) == PolicyName(ep)

\* line 174
SavePolicy ==
    /\ pc = "save_policy"
    /\ pol' = [pol EXCEPT ![PolicyFile(e)] = [by |-> "new", version |-> current_policy]]
    /\ trace' = Append(trace, Event("save_policy", PolicyFile(e)[2]))
    /\ pc' = "maybe_reset"
    /\ UNCHANGED <<args, locals, dirs, created, ckpt, envPolicy, env, buffer, agent,
                   loopvars, error, failedAt>>

\* line 175 with the condition dropped: reset after every episode
ResetAlways(ep, n) == TRUE

\* line 175
ResetNeeded(ep, n) == ~(ep = n - 1)

\* lines 175-176
MaybeReset ==
    /\ pc = "maybe_reset"
    /\ IF ResetNeeded(e, episodes)
       THEN /\ buffer' = BufferReset(buffer)
            /\ trace' = Append(trace, Event("reset", e))
       ELSE UNCHANGED <<buffer, trace>>
    /\ pc' = "loop"
    /\ UNCHANGED <<args, locals, disk, env, agent, loopvars, error, failedAt>>

\* ------------------------------------------------------------ specifications
Next ==
    \/ Settings
    \/ Makedirs
    \/ CheckSimulation
    \/ CopyBase
    \/ CheckFinishTime
    \/ CreateBuffer
    \/ CreateAgent
    \/ LoadCheckpoint
    \/ FreshStart
    \/ Prepare
    \/ TimeWindow
    \/ FirstReset
    \/ StartLoop
    \/ LoopHead
    \/ FillLaunch
    \/ \E i \in 1 .. MaxRunners : TrialEnds(i)
    \/ \E i \in 1 .. MaxRunners : TrialTimesOut(i)
    \/ Fill
    \/ ReadObservations
    \/ PrintStatistics
    \/ Update
    \/ SaveState
    \/ TracePolicy
    \/ UpdatePolicy
    \/ SavePolicy
    \/ MaybeReset

\* main() with collaborators that do what their contract says.
Spec == Init /\ [][Next]_vars

\* main() on a valid configuration, every step taken in the end: main() runs
\* on, and a running trial ends or is stopped at its timeout.
InitLive ==
    /\ Init
    /\ args.simulation = "rotatingCylinder2D"
    /\ args.environment = Str_local

LiveSpec == InitLive /\ [][Next]_vars /\ WF_vars(Next)

\* The steps of main() that call into a collaborator (file system, buffer,
\* agent), any of which may raise.
FaultPoints ==
    {"copytree", "check_finish_time", "create_agent", "checkpoint_branch",
     "prepare", "first_reset",
     "fill", "filling", "observations", "update", "trace_policy", "update_policy", "maybe_reset"}

\* A collaborator raises: the exception leaves main(), nothing catches it.
CollaboratorFails ==
    /\ pc \in FaultPoints
    /\ pc = "maybe_reset" => ResetNeeded(e, episodes)
    /\ failedAt' = pc
    /\ Raise("Fatal")
    /\ UNCHANGED <<args, locals, disk, env, buffer, agent, loopvars, trace>>

\* agent.save_state or current_policy.save raises; the file it was writing
\* is left as it was or half written.
SaveFails ==
    /\ pc \in {"save_state", "save_policy"}
    /\ failedAt' = pc
    /\ Raise("Fatal")
    /\ \E written \in BOOLEAN :
          IF pc = "save_state"
          THEN /\ ckpt' = IF written
                          THEN [ckpt EXCEPT ![CheckpointFile(e)] = [by |-> "partial", history |-> <<>>]]
                          ELSE ckpt
               /\ UNCHANGED pol
          ELSE /\ pol' = IF written
                         THEN [pol EXCEPT ![PolicyFile(e)] = [by |-> "partial", version |-> -1]]
                         ELSE pol
               /\ UNCHANGED ckpt
    /\ UNCHANGED <<args, locals, dirs, created, envPolicy, env, buffer, agent,
                   loopvars, trace>>

NextFault ==
    \/ Next
    \/ CollaboratorFails
    \/ SaveFails

\* main() with collaborators that may raise at any call.
FaultSpec == Init /\ [][NextFault]_vars

\* ------------------------------------------------------------------ claims
IsPrefix(s, t) == Len(s) <= Len(t) /\ \A i \in 1 .. Len(s) : s[i] = t[i]
HasEvent(op, ep) == \E i \in 1 .. Len(trace) : trace[i] = Event(op, ep)
Count(op) == Cardinality({i \in 1 .. Len(trace) : trace[i].op = op})
Positions(op, ep) == {i \in 1 .. Len(trace) : trace[i] = Event(op, ep)}

\* The operations of the loop: the trace without prepare() and the reset of
\* line 161, which are logged before the loop variable is bound.
InLoop(ev) == ev.e # -1
LoopTrace == SelectSeq(trace, InLoop)

\* What one episode does, by the claim.
EpisodeSteps(ep, n) ==
    <<Event("fill", ep), Event("observations", ep), Event("update", ep),
      Event("save_state", ep), Event("trace_policy", ep),
      Event("update_policy", ep), Event("save_policy", ep)>>
    \o (IF ep # n - 1 THEN <<Event("reset", ep)>> ELSE <<>>)

RECURSIVE EpisodesFromTo(_, _, _)
EpisodesFromTo(from, to, n) ==
    IF from >= to THEN <<>>
    ELSE EpisodeSteps(from, n) \o EpisodesFromTo(from + 1, to, n)

BeforeLoop ==
    {"settings", "makedirs", "check_simulation", "copytree", "check_finish_time",
     "create_buffer", "create_agent", "checkpoint_branch", "prepare",
     "time_window", "first_reset", "start_loop"}

\* C1: the operations of the loop are, at every moment, a beginning of
\* fill, observations, update, save checkpoint, trace, update_policy, save
\* policy, (reset unless e = episodes-1) for e = starting_episode,
\* starting_episode+1, ..., episodes-1; at every loop head they are exactly the
\* full episodes below the next index, and at the end exactly all of them.
C1_EpisodeOrder ==
    /\ pc \in BeforeLoop \/ starting_episode = -1 => LoopTrace = <<>>
    /\ pc \notin BeforeLoop /\ starting_episode # -1 =>
          IsPrefix(LoopTrace, EpisodesFromTo(starting_episode, episodes, episodes))
    /\ pc = "loop" => LoopTrace = EpisodesFromTo(starting_episode, it, episodes)
    /\ pc = "done" => LoopTrace = EpisodesFromTo(starting_episode, episodes, episodes)

C1_Witness ==
    /\ pc = "done"
    /\ starting_episode = 1
    /\ episodes = 3
    /\ Len(LoopTrace) = 15

BeforeBranch ==
    {"settings", "makedirs", "check_simulation", "copytree", "check_finish_time",
     "create_buffer", "create_agent", "checkpoint_branch"}

\* The last episode recorded in the history of the checkpoint file given
\* with -c.
RecordedEpisode == Last(ckpt[args.checkpoint].history)

\* C2: once main() is past the checkpoint branch, with a checkpoint whose
\* history ends with episode k, starting_episode is k+1 and, as long as no
\* fill has happened, the buffer's _n_fills is k+1; without a checkpoint
\* starting_episode is 0.
C2_Resume ==
    pc \notin BeforeBranch /\ agent.made /\ (pc = "raised" => error = "ZeroDivisionError") =>
        IF args.checkpoint # NoCheckpoint
        THEN /\ starting_episode = RecordedEpisode + 1
             /\ Count("fill") = 0 => buffer.n_fills = RecordedEpisode + 1
        ELSE starting_episode = 0

C2_Witness ==
    /\ pc = "fill"
    /\ args.checkpoint = CheckpointName(1)
    /\ Count("fill") = 0
    /\ starting_episode = 2
    /\ buffer.n_fills = 2

\* C3 (as claimed): when main() raises for an unknown simulation name, this
\* run has created no directory.
C3_NoDirectoryBeforeError ==
    error = "ValueError" /\ args.simulation \notin {"rotatingCylinder2D", "rotatingPinball2D"}
        => created = {}

\* C3 (amended): when main() raises for an unknown simulation name, the only
\* directory this run can have created is the training output directory
\* itself; neither <output>/base nor any trial directory has been created.
C3_OnlyTrainingDirBeforeError ==
    error = "ValueError" /\ args.simulation \notin {"rotatingCylinder2D", "rotatingPinball2D"}
        => /\ created \subseteq {TrainingDir}
           /\ TrainingDir \in dirs
           /\ ~env

C3_Witness ==
    /\ pc = "raised"
    /\ error = "ValueError"
    /\ args.simulation = "foo"
    /\ created = {TrainingDir}

\* The -e arguments explored that spell 'local' or 'slurm' in some case.
BackendSpellings ==
    {<<"l", "o", "c", "a", "l">>, <<"L", "O", "C", "A", "L">>, <<"S", "L", "u", "r", "M">>}

ConfigurationError ==
    \/ args.simulation \notin {"rotatingCylinder2D", "rotatingPinball2D"}
    \/ args.environment \notin BackendSpellings

NothingWritten ==
    /\ \A n \in DOMAIN ckpt : ckpt[n].by \notin {"new", "partial"}
    /\ \A n \in DOMAIN pol : pol[n].by \notin {"new", "partial"}

\* C4: with an unknown simulation name or a backend that is neither 'local'
\* nor 'slurm' in any case, main() gets no further than the creation of the
\* buffer, ends with ValueError, has made no buffer and no agent, has called
\* none of prepare, reset, fill, update and has written no checkpoint and no
\* policy; and ValueError is raised for no other configuration.
C4_ConfigurationErrorFatal ==
    /\ ConfigurationError =>
          /\ pc \in {"settings", "makedirs", "check_simulation", "copytree",
                     "check_finish_time", "create_buffer", "raised"}
          /\ pc = "raised" => error = "ValueError" /\ ~ENABLED Next
          /\ buffer.kind = "none"
          /\ ~agent.made
          /\ trace = <<>>
          /\ NothingWritten
    /\ error = "ValueError" => ConfigurationError

C4_Witness ==
    /\ pc = "raised"
    /\ error = "ValueError"
    /\ args.environment = <<"p", "b", "s">>
    /\ args.simulation = "rotatingCylinder2D"

C4_WitnessSimulation ==
    /\ pc = "raised"
    /\ error = "ValueError"
    /\ args.simulation = "foo"
    /\ args.environment = <<"S", "L", "u", "r", "M">>

\* A fill has completed in this episode and no trial succeeded.
TotalFillFailure ==
    /\ buffer.kind # "none"
    /\ buffer.state = "done"
    /\ \A i \in DOMAIN buffer.trials : buffer.trials[i] \in {"failed", "timed_out"}

\* C5: after a fill in which no trial succeeded, main() gets no further than
\* print_statistics: agent.update is not called for that episode, neither
\* checkpoint_e nor policy_trace_e is written, no later episode starts, and
\* main() ends with the ZeroDivisionError of print_statistics.
C5_TotalFillFailure ==
    TotalFillFailure =>
        /\ pc \in {"observations", "print_statistics", "raised"}
        /\ pc = "raised" => error = "ZeroDivisionError" /\ ~ENABLED Next
        /\ ~HasEvent("update", e)
        /\ ckpt[CheckpointName(e)].by # "new"
        /\ pol[PolicyName(e)].by # "new"
        /\ it = e + 1

C5_Witness ==
    /\ TotalFillFailure
    /\ pc = "raised"
    /\ error = "ZeroDivisionError"
    /\ e = 1
    /\ starting_episode = 0
    /\ episodes = 3

\* A fill has completed in this episode with at least one and fewer than
\* the launched number of successful trials.
PartialFill ==
    /\ buffer.kind # "none"
    /\ buffer.state = "done"
    /\ \A i \in DOMAIN buffer.trials : buffer.trials[i] \in TerminalStatus
    /\ \E i \in DOMAIN buffer.trials : buffer.trials[i] = "succeeded"
    /\ \E i \in DOMAIN buffer.trials : buffer.trials[i] # "succeeded"

SucceededTrials == {i \in DOMAIN buffer.trials : buffer.trials[i] = "succeeded"}

AfterUpdate ==
    {"save_state", "trace_policy", "update_policy", "save_policy", "maybe_reset",
     "loop", "done"}

\* C6: in an episode whose fill lost some but not all trials, main() raises
\* nothing and always has a next step until the loop is over; agent.update
\* is called with exactly the trajectories of the successful trials, and
\* checkpoint_e and policy_trace_e are written.
C6_PartialLoss ==
    PartialFill =>
        /\ error = "none" /\ pc # "raised"
        /\ pc # "done" => ENABLED Next
        /\ pc \in AfterUpdate =>
              /\ HasEvent("update", e)
              /\ Len(batch.states) = Cardinality(SucceededTrials)
              /\ \A f \in {"states", "actions", "rewards"} :
                    {batch[f][i] : i \in 1 .. Len(batch[f])} = SucceededTrials
        /\ pc \in AfterUpdate \ {"save_state"} =>
              ckpt[CheckpointName(e)] = [by |-> "new", history |-> HistoryUpTo(e)]
        /\ pc \in {"maybe_reset", "loop", "done"} =>
              pol[PolicyName(e)] = [by |-> "new", version |-> e + 1]

C6_Witness ==
    /\ PartialFill
    /\ pc = "maybe_reset"
    /\ e = 0
    /\ episodes = 2
    /\ Len(batch.states) = 1
    /\ n_runners = 2
    /\ ckpt[CheckpointName(0)].by = "new"
    /\ pol[PolicyName(0)].by = "new"

SaveEvent(ev) == ev.op \in {"save_state", "save_policy"}

RECURSIVE SavesFromTo(_, _)
SavesFromTo(from, to) ==
    IF from >= to THEN <<>>
    ELSE <<Event("save_state", from), Event("save_policy", from)>> \o SavesFromTo(from + 1, to)

\* C7: when main() has finished without error, the files it wrote are, in
\* this order, checkpoint_e then policy_trace_e for e = starting_episode, ...,
\* episodes-1, each once, and the checkpoint and policy files written by this
\* run are exactly those with these indices.
C7_FilesWritten ==
    pc = "done" =>
        /\ error = "none"
        /\ SelectSeq(trace, SaveEvent) = SavesFromTo(starting_episode, episodes)
        /\ \A i \in FileIndex :
              /\ ckpt[CheckpointName(i)].by = "new" <=> (starting_episode <= i /\ i <= episodes - 1)
              /\ pol[PolicyName(i)].by = "new" <=> (starting_episode <= i /\ i <= episodes - 1)
              /\ ckpt[CheckpointName(i)].by # "partial"
              /\ pol[PolicyName(i)].by # "partial"

C7_Witness ==
    /\ pc = "done"
    /\ args.checkpoint = NoCheckpoint
    /\ episodes = 2
    /\ SelectSeq(trace, SaveEvent) =
          <<Event("save_state", 0), Event("save_policy", 0),
            Event("save_state", 1), Event("save_policy", 1)>>

\* The operations logged after the last fill of episode ep.
AfterFill(ep) ==
    {i \in 1 .. Len(trace) : \A j \in Positions("fill", ep) : i > j}

\* C8: when the fill of an episode after the first of this run starts, the
\* checkpoint and the policy file of the episode before are completely
\* written, the policy in the trial directories is the one traced after the
\* update of the episode before, and since the fill of the episode before
\* update_policy has run exactly once, after the update and before the reset.
C8_PolicyHandOff ==
    pc = "fill" /\ e > starting_episode =>
        /\ ckpt[CheckpointName(e - 1)] = [by |-> "new", history |-> agent.history]
        /\ Last(agent.history) = e - 1
        /\ pol[PolicyName(e - 1)] = [by |-> "new", version |-> Len(agent.history)]
        /\ envPolicy = Len(agent.history)
        /\ Cardinality(Positions("fill", e - 1)) = 1
        /\ Cardinality({i \in AfterFill(e - 1) : trace[i].op = "update_policy"}) = 1
        /\ \A u \in Positions("update", e - 1) :
           \A p \in Positions("update_policy", e - 1) :
           \A r \in Positions("reset", e - 1) : u < p /\ p < r
        /\ Positions("update", e - 1) # {}
        /\ Positions("update_policy", e - 1) # {}
        /\ Positions("reset", e - 1) # {}

C8_Witness ==
    /\ pc = "fill"
    /\ starting_episode = 1
    /\ e = 2
    /\ envPolicy = 2
    /\ pol[PolicyName(1)].by = "new"

\* The resets logged after the last fill (all resets when there was no fill).
ResetsSinceLastFill ==
    Cardinality({i \in 1 .. Len(trace) :
                    /\ trace[i].op = "reset"
                    /\ \A j \in 1 .. Len(trace) : trace[j].op = "fill" => j < i})

\* C9: whenever a fill is about to start, exactly one reset has happened
\* since the fill before it (since the start of main() for the first fill);
\* no reset follows the fill of episode episodes-1; and when main() has
\* finished after at least one fill, it has reset as often as it has filled.
C9_ResetBetweenFills ==
    /\ pc = "fill" => ResetsSinceLastFill = 1
    /\ \A i \in Positions("fill", episodes - 1) :
       \A j \in 1 .. Len(trace) : j > i => trace[j].op # "reset"
    /\ pc = "done" /\ Count("fill") >= 1 => Count("reset") = Count("fill")

C9_Witness ==
    /\ pc = "done"
    /\ Count("fill") = 3
    /\ Count("reset") = 3
    /\ trace[Len(trace)].op = "save_policy"

\* C10 (state part): when agent.update of episode e has raised, neither
\* checkpoint_e nor policy_trace_e has been written, the update has not been
\* run again and nothing runs any more, and the highest-indexed checkpoint on
\* disk is that of episode e-1 with the history the agent had before the
\* failed update (no checkpoint at all when e is 0).
C10_UpdateFailure ==
    error = "Fatal" /\ failedAt = "update" =>
        /\ pc = "raised" /\ ~ENABLED NextFault
        /\ ~HasEvent("update", e)
        /\ ckpt[CheckpointName(e)] = NoFile
        /\ pol[PolicyName(e)] = NoPolicyFile
        /\ \A i \in FileIndex : ckpt[CheckpointName(i)].by # "none" <=> i <= e - 1
        /\ e >= 1 => /\ ckpt[CheckpointName(e - 1)].by \in {"old", "new"}
                     /\ ckpt[CheckpointName(e - 1)].history = agent.history
                     /\ Last(agent.history) = e - 1

\* C10 (step part): no step of episode e changes a checkpoint or policy file
\* of an episode before e.
C10_EarlierFilesKept ==
    \A i \in FileIndex :
        i < e => /\ ckpt'[CheckpointName(i)] = ckpt[CheckpointName(i)]
                 /\ pol'[PolicyName(i)] = pol[PolicyName(i)]

\* C10: a fatal failure in episode e leaves the checkpoint and policy files
\* of every earlier episode as they were; a failing agent.update leaves no
\* checkpoint_e and no policy_trace_e, is not retried, and leaves the
\* checkpoint of the last fully updated episode as the highest on disk.
C10_Recovery == [](C10_UpdateFailure) /\ [][C10_EarlierFilesKept]_vars

C10_Witness ==
    /\ error = "Fatal"
    /\ failedAt = "update"
    /\ e = 2
    /\ starting_episode = 1
    /\ ckpt[CheckpointName(1)].by = "new"
    /\ ckpt[CheckpointName(0)].by = "old"

\* C11: create_dummy_policy and buffer.prepare() run at most once; on a
\* fresh start they are the first two operations, so they precede the first
\* reset and the first fill, and there is no reset or fill without them; with
\* a checkpoint given they never run.
C11_PrepareOnce ==
    /\ Count("prepare") <= 1
    /\ Count("create_dummy_policy") <= 1
    /\ args.checkpoint # NoCheckpoint =>
          Count("prepare") = 0 /\ Count("create_dummy_policy") = 0
    /\ args.checkpoint = NoCheckpoint /\ Count("reset") + Count("fill") >= 1 =>
          /\ Len(trace) >= 3
          /\ trace[1] = Event("create_dummy_policy", -1)
          /\ trace[2] = Event("prepare", -1)
          /\ trace[3] = Event("reset", -1)

C11_Witness ==
    /\ pc = "done"
    /\ args.checkpoint = NoCheckpoint
    /\ Count("prepare") = 1
    /\ Count("fill") = 2
    /\ Count("reset") = 2

\* The trials whose trajectory is in the sequence q.
Members(q) == {q[i] : i \in 1 .. Len(q)}

\* The fill of this episode is complete and its observations have been read.
ObservationsRead == buffer.state = "done" /\ HasEvent("observations", e)

\* C12: the batch read after a completed fill, and the batch agent.update is
\* called with, hold exactly the trajectories of the trials whose status is
\* succeeded, once each and in launch order, and so nothing of a failed or
\* timed-out trial; a trial whose run lasted longer than the timeout has the
\* status timed_out and is not in the batch.
C12_BatchMembership ==
    /\ \A i \in DOMAIN buffer.trials :
          buffer.runs[i] # NoRun /\ buffer.runs[i].runtime > args.timeout =>
              buffer.trials[i] = "timed_out"
    /\ ObservationsRead =>
          \A f \in {"states", "actions", "rewards"} :
              /\ Members(observations[f]) = SucceededTrials
              /\ Len(observations[f]) = Cardinality(SucceededTrials)
              /\ \A i, j \in 1 .. Len(observations[f]) :
                    i < j => observations[f][i] < observations[f][j]
              /\ \A i \in DOMAIN buffer.trials :
                    buffer.trials[i] \in {"failed", "timed_out"} =>
                        i \notin Members(observations[f])
    /\ ObservationsRead /\ HasEvent("update", e) => batch = observations

C12_Witness ==
    /\ pc = "save_state"
    /\ n_runners = 2
    /\ buffer.runs[1].runtime = 3
    /\ buffer.trials[1] = "timed_out"
    /\ buffer.trials[2] = "succeeded"
    /\ batch.states = <<2>>
    /\ e = 1

AllTerminal == \A i \in DOMAIN buffer.trials : buffer.trials[i] \in TerminalStatus

\* C13 (state part): a fill that has returned had buffer_size successful
\* trials or every launched trial in a terminal status.
C13_NotEarly ==
    buffer.state = "done" =>
        Cardinality(SucceededTrials) >= args.buffer \/ AllTerminal

\* C13 (step part): the step that marks a trial timed_out changes no other
\* trial, leaves the fill waiting and raises nothing.
C13_StoppedAlone ==
    \A i \in DOMAIN buffer.trials :
        buffer.trials[i] = "running" /\ buffer'.trials[i] = "timed_out" =>
            /\ \A j \in DOMAIN buffer.trials \ {i} : buffer'.trials[j] = buffer.trials[j]
            /\ buffer'.state = "waiting"
            /\ pc' = "filling"
            /\ error' = "none"

\* C13: a fill returns only with buffer_size successful trials or with every
\* launched trial terminal; a timed-out trial is stopped alone; and, every
\* trial ending or being stopped at its timeout, every fill that has started
\* returns and main() comes to its end.
C13_FillTerminates ==
    /\ [](C13_NotEarly)
    /\ [][C13_StoppedAlone]_vars
    /\ (pc = "filling") ~> (pc = "observations")
    /\ <>(pc \in {"done", "raised"})

C13_Witness ==
    /\ pc = "done"
    /\ episodes = 2
    /\ args.buffer = 2
    /\ n_runners = 2
    /\ buffer.trials = <<"timed_out", "succeeded">>
    /\ Count("fill") = 2

\* A trial of this fill that can succeed: its run ended in time with
\* well-formed output, or it was still running when the fill returned.
CanSucceed(i) ==
    \/ buffer.trials[i] = "running"
    \/ /\ buffer.runs[i] # NoRun
       /\ buffer.runs[i].runtime <= args.timeout
       /\ buffer.runs[i].output = "wellformed"

\* C14: with n_runners >= buffer_size > 0, the observations read after a
\* completed fill hold at most n_runners trajectories, and at least one
\* whenever some trial of the fill can succeed.
C14_TrajectoryCount ==
    args.runners >= args.buffer /\ args.buffer > 0 /\ ObservationsRead =>
        \A f \in {"states", "actions", "rewards"} :
            /\ Len(observations[f]) <= args.runners
            /\ (\E i \in DOMAIN buffer.trials : CanSucceed(i)) => Len(observations[f]) >= 1

C14_Witness ==
    /\ pc = "print_statistics"
    /\ args.runners = 2
    /\ args.buffer = 1
    /\ buffer.trials = <<"failed", "succeeded">>
    /\ Len(observations.states) = 1

\* C14 without its condition on buffer_size: with buffer_size 0 the fill
\* returns before any trial has ended.
C14_WitnessCondition ==
    /\ pc = "print_statistics"
    /\ args.buffer = 0
    /\ \E i \in DOMAIN buffer.trials : CanSucceed(i)
    /\ Len(observations.states) = 0

\* C15: when buffer.fill() of episode e is called, and while it runs, the
\* buffer's _n_fills is e; when it has returned, e + 1 until the next episode.
C15_FillCounter ==
    /\ pc \in {"fill", "filling"} => buffer.n_fills = e
    /\ pc \in {"observations", "print_statistics"} \cup AfterUpdate /\ e # -1 =>
          buffer.n_fills = e + 1

C15_Witness ==
    /\ pc = "fill"
    /\ args.checkpoint = CheckpointName(0)
    /\ e = 2
    /\ buffer.n_fills = 2
    /\ Count("fill") = 1

C15_WitnessFresh ==
    /\ pc = "fill"
    /\ args.checkpoint = NoCheckpoint
    /\ e = 1
    /\ buffer.n_fills = 1

\* C16 (state part): from the first reset on, the base environment starts
\* at the end time the environment was constructed with and ends at the
\* finish time of the command line.
C16_WindowSet ==
    pc = "first_reset" \/ Count("reset") >= 1 =>
        /\ buffer.start_time = EnvEndTime
        /\ buffer.end_time = args.finish

\* C16 (step part): no step but lines 159-160 changes the start or the end
\* time of the base environment.
C16_WindowKept ==
    pc # "time_window" =>
        /\ buffer'.start_time = buffer.start_time
        /\ buffer'.end_time = buffer.end_time

\* C16: the time window is set once, before the first reset, to (previous
\* end time, finish time), on a fresh and on a resumed start, and no step of
\* the loop changes it: every reset and fill of the run has the same window.
C16_TimeWindowFixed == [](C16_WindowSet) /\ [][C16_WindowKept]_vars

C16_Witness ==
    /\ pc = "filling"
    /\ args.checkpoint = CheckpointName(0)
    /\ e = 2
    /\ Count("reset") = 2
    /\ buffer.start_time = EnvEndTime
    /\ buffer.end_time = DefaultFinish

\* C17 (as claimed): the first fill of a run resumed from checkpoint_k runs
\* with the policy produced by the update of episode k, also when the run
\* before stopped between save_state and update_policy of episode k.
C17_ResumedPolicy ==
    pc \in {"fill", "filling"} /\ args.checkpoint # NoCheckpoint /\ Count("fill") = 0 =>
        envPolicy = Len(ckpt[args.checkpoint].history)

\* main() has found starting_episode >= episodes.
ZeroIterations == starting_episode # -1 /\ starting_episode >= episodes

BufferOperations == {"prepare", "reset", "fill", "observations", "update_policy"}

\* The checkpoint and policy files are those main() found.
DiskAsFound ==
    IF args.checkpoint = NoCheckpoint
    THEN ckpt = OldCheckpoints(-1) /\ pol = OldPolicies(-1)
    ELSE /\ ckpt = OldCheckpoints(args.checkpoint[2])
         /\ pol \in {OldPolicies(args.checkpoint[2]), OldPolicies(args.checkpoint[2] - 1)}

\* C18 (as claimed): with starting_episode >= episodes the only buffer
\* operation of the run is the reset before the loop.
C18_OnlyReset ==
    ZeroIterations =>
        \A i \in 1 .. Len(trace) : trace[i].op \in BufferOperations => trace[i].op = "reset"

\* C18 (state part, amended): with starting_episode >= episodes main() never
\* enters the loop body; it fills, updates and writes nothing, leaves every
\* checkpoint and policy file as found and the fill counter as set, and the
\* buffer operations of the run are the one reset before the loop, preceded
\* on a fresh start by prepare().
C18_NoEpisode ==
    ZeroIterations =>
        /\ pc \in {"prepare", "time_window", "first_reset", "start_loop", "loop", "done"}
        /\ e = -1
        /\ LoopTrace = <<>>
        /\ DiskAsFound
        /\ batch = NoObservations
        /\ buffer.n_fills = starting_episode
        /\ Count("reset") <= 1
        /\ pc \in {"start_loop", "loop", "done"} =>
              trace = IF args.checkpoint = NoCheckpoint
                      THEN <<Event("create_dummy_policy", -1), Event("prepare", -1),
                             Event("reset", -1)>>
                      ELSE <<Event("reset", -1)>>

\* C18 (amended): with starting_episode >= episodes the loop body runs zero
\* times, nothing is filled, updated, written or overwritten, the buffer
\* operations are the single reset before the loop and, on a fresh start,
\* the prepare() before it, and main() comes to its end.
C18_ResumePastEnd ==
    /\ [](C18_NoEpisode)
    /\ (ZeroIterations /\ pc = "start_loop") ~> (pc = "done")

C18_Witness ==
    /\ pc = "done"
    /\ args.checkpoint = CheckpointName(2)
    /\ episodes = 3
    /\ starting_episode = 3
    /\ trace = <<Event("reset", -1)>>

====
